---- MODULE Spec2Model ----
(***************************************************************************)
(* Model of taiga/projects/custom_attributes/validators.py:                *)
(*   - BaseCustomAttributeValidator._validate_integrity_between_project_   *)
(*     and_name (uniqueness of (project, name) per attribute model),       *)
(*   - BaseCustomAttributesValuesValidator.validate_estimation,            *)
(*   - BaseCustomAttributesValuesValidator.validate_attributes_values.     *)
(*                                                                         *)
(* Python strings are sequences of one-character strings.  An optional     *)
(* Python value (None, or a key missing from attrs) is the empty sequence  *)
(* and a present value v is <<v>>.                                         *)
(***************************************************************************)
EXTENDS Integers, Sequences, FiniteSets, TLC

VARIABLES store, chk, reqs, est, call

vars == <<store, chk, reqs, est, call>>

(***************************************************************************)
(* Bounds of the model.                                                    *)
(***************************************************************************)
MaxWeeks == 2
MaxDays == 6
MaxHours == 41
MaxLen == 3
MaxDefs == 2
MaxKeys == 2

(***************************************************************************)
(* Python values.                                                          *)
(***************************************************************************)
None == <<>>

Some(v) == <<v>>

Digits == <<"0", "1", "2", "3", "4", "5", "6", "7", "8", "9">>

IsDigit(c) == \E i \in 1..10 : Digits[i] = c

DigitVal(c) == (CHOOSE i \in 1..10 : Digits[i] = c) - 1

\* int(s) on a string of decimal digits
RECURSIVE ParseInt(_)
ParseInt(s) ==
    IF Len(s) = 0 THEN 0
    ELSE 10 * ParseInt(SubSeq(s, 1, Len(s) - 1)) + DigitVal(s[Len(s)])

\* str(n) for n >= 0
RECURSIVE ToStr(_)
ToStr(n) ==
    IF n < 10 THEN <<Digits[n + 1]>>
    ELSE ToStr(n \div 10) \o <<Digits[(n % 10) + 1]>>

(***************************************************************************)
(* validate_estimation: the regular expression                             *)
(*   ([0-9]+w)*([0-9]+d)*([0-9]+h)*                                        *)
(* as re.findall applies it: the first match starts at index 0, each       *)
(* starred group repeats greedily and captures its last repetition, and a  *)
(* group that did not take part is reported as ''.                         *)
(***************************************************************************)

\* index just past the longest run of [0-9] starting at index pos
RECURSIVE DigitRun(_, _)
DigitRun(s, pos) ==
    IF pos <= Len(s) /\ IsDigit(s[pos]) THEN DigitRun(s, pos + 1) ELSE pos

\* one repetition of [0-9]+<unit> at pos: the index after it, or 0 (no match)
MatchUnit(s, pos, unit) ==
    LET e == DigitRun(s, pos)
    IN  IF e > pos /\ e <= Len(s) /\ s[e] = unit THEN e + 1 ELSE 0

\* ([0-9]+<unit>)* at pos; grp is the capture so far
RECURSIVE MatchStar(_, _, _, _)
MatchStar(s, pos, unit, grp) ==
    LET n == MatchUnit(s, pos, unit)
    IN  IF n = 0 THEN [pos |-> pos, grp |-> grp]
        ELSE MatchStar(s, n, unit, SubSeq(s, pos, n - 1))

\* re.findall(regular_expression, value)[0]
FindallFirst(value) ==
    LET g1 == MatchStar(value, 1, "w", <<>>)
        g2 == MatchStar(value, g1.pos, "d", <<>>)
        g3 == MatchStar(value, g2.pos, "h", <<>>)
    IN  <<g1.grp, g2.grp, g3.grp>>

\* item[:-1]
ButLast(item) == SubSeq(item, 1, Len(item) - 1)

\* [int('0' + item[:-1]) for item in ...]
Timestamps(value) ==
    LET items == FindallFirst(value)
    IN  [i \in 1..3 |-> ParseInt(<<"0">> \o ButLast(items[i]))]

\* a single carry where the code loops
CarryHoursOnce(ts) ==
    IF ts[3] >= 8 THEN <<ts[1], ts[2] + 1, ts[3] - 8>> ELSE ts

\* while timestamps[2] >= 8
RECURSIVE CarryHours(_)
CarryHours(ts) ==
    IF ts[3] >= 8 THEN CarryHours(<<ts[1], ts[2] + 1, ts[3] - 8>>) ELSE ts

\* while timestamps[1] >= 5
RECURSIVE CarryDays(_)
CarryDays(ts) ==
    IF ts[2] >= 5 THEN CarryDays(<<ts[1] + 1, ts[2] - 5, ts[3]>>) ELSE ts

\* str(n) + unit if n > 0 else ''
RenderUnit(n, unit) == IF n > 0 THEN ToStr(n) \o <<unit>> ELSE <<>>

\* ''.join(timestamps)
Render(ts) ==
    RenderUnit(ts[1], "w") \o RenderUnit(ts[2], "d") \o RenderUnit(ts[3], "h")

\* the two carry loops in the opposite order
validate_estimation_days_first(value) ==
    Render(CarryHours(CarryDays(Timestamps(value))))

validate_estimation(value) == Render(CarryDays(CarryHours(Timestamps(value))))

(***************************************************************************)
(* Inputs of validate_estimation.                                          *)
(***************************************************************************)
Opt(S) == {None} \cup {Some(v) : v \in S}

\* the string <w>w<d>d<h>h of the components that are present
Part(p, unit) == IF p = None THEN <<>> ELSE ToStr(p[1]) \o <<unit>>

Build(parts) == Part(parts[1], "w") \o Part(parts[2], "d") \o Part(parts[3], "h")

PartSets == Opt(0..MaxWeeks) \X Opt(0..MaxDays) \X Opt(0..MaxHours)

Alphabet == {"0", "1", "2", "w", "d", "h", "-", "x"}

SmallStrings == UNION {[1..n -> Alphabet] : n \in 0..MaxLen}

\* the duration grammar: optional <int>w, optional <int>d, optional <int>h
StripComp(s, unit) ==
    LET n == MatchUnit(s, 1, unit)
    IN  IF n = 0 THEN s ELSE SubSeq(s, n, Len(s))

InGrammar(s) == StripComp(StripComp(StripComp(s, "w"), "d"), "h") = <<>>

EstInput(raw, parts) ==
    [raw |-> raw, parts |-> parts, out |-> <<>>, out2 |-> <<>>,
     outcome |-> "pending", stage |-> "input"]

EstInputs ==
    {EstInput(Build(p), p) : p \in PartSets}
        \cup {EstInput(s, <<>>) : s \in SmallStrings}

(***************************************************************************)
(* The attribute-definition tables.  store is the set of rows of the four  *)
(* models EpicCustomAttribute, UserStoryCustomAttribute,                   *)
(* TaskCustomAttribute and IssueCustomAttribute: kind says which table a   *)
(* row is in, and every table numbers its own rows from 1.                 *)
(***************************************************************************)
Kinds == {"epic", "userstory", "task", "issue"}

Projects == {1, 2}

Names == {"", "a", "b"}

Types == {"text", "est"}

Row(kind, id, project, name, type) ==
    [kind |-> kind, id |-> id, project |-> project, name |-> name, type |-> type]

\* model.objects: the rows of one table
Objects(st, kind) == {d \in st : d.kind = kind}

\* the id the table gives its next row
NextId(st, kind) ==
    LET ids == {d.id : d \in Objects(st, kind)}
    IN  IF ids = {} THEN 1 ELSE (CHOOSE m \in ids : \A i \in ids : i <= m) + 1

(***************************************************************************)
(* _validate_integrity_between_project_and_name(attrs, source).            *)
(* attrs is [id, name, project], each None or <<value>>; obj is self.object*)
(* (None on a create, <<row>> on an update).                               *)
(***************************************************************************)

\* Python's "x or y" on an optional id, name, project
OrId(x, y) == IF x # None /\ x[1] # 0 THEN x ELSE y

OrName(x, y) == IF x # None /\ x[1] # "" THEN x ELSE y

OrProject(x, y) == IF x # None THEN x ELSE y

\* data_id, data_name, data_project after the "if self.object:" block
Resolve(attrs, obj) ==
    IF obj # None
    THEN [id |-> OrId(attrs.id, Some(obj[1].id)),
          name |-> OrName(attrs.name, Some(obj[1].name)),
          project |-> OrProject(attrs.project, Some(obj[1].project))]
    ELSE [id |-> attrs.id, name |-> attrs.name, project |-> attrs.project]

\* a filter that forgets the project
FilterNameOnly(st, kind, project, name) ==
    {d \in Objects(st, kind) : Some(d.name) = name}

\* model.objects.filter(project=data_project, name=data_name)
Filter(st, kind, project, name) ==
    {d \in Objects(st, kind) : Some(d.project) = project /\ Some(d.name) = name}

\* a query without the exclusion
ExcludeNothing(qs, id) == qs

\* .exclude(id=data_id): exclude(id=None) removes no row, ids are never NULL
Exclude(qs, id) == {d \in qs : Some(d.id) # id}

\* qs.exists()
Exists(qs) == qs # {}

\* TRUE when the ValidationError is raised, FALSE when attrs is returned
DuplicateName(st, kind, attrs, obj) ==
    LET r == Resolve(attrs, obj)
    IN  Exists(Exclude(Filter(st, kind, r.project, r.name), r.id))

\* the record of one call of validate_name / validate_project
Checked(op, st, kind, attrs, obj) ==
    [op |-> op, kind |-> kind, attrs |-> attrs, obj |-> obj, before |-> st,
     resolved |-> Resolve(attrs, obj),
     raised |-> DuplicateName(st, kind, attrs, obj),
     returned |-> IF DuplicateName(st, kind, attrs, obj) THEN None ELSE Some(attrs)]

Attrs(id, name, project) == [id |-> id, name |-> name, project |-> project]

\* the row an accepted mutation saves: a new row on a create, the object with
\* the submitted fields set on an update
Saved(st, kind, attrs, obj) ==
    IF obj = None
    THEN Row(kind, NextId(st, kind), attrs.project[1], attrs.name[1], "text")
    ELSE [obj[1] EXCEPT
            !.name = IF attrs.name # None THEN attrs.name[1] ELSE @,
            !.project = IF attrs.project # None THEN attrs.project[1] ELSE @]

\* save(): INSERT of the new row, or UPDATE of the row with the object's id
Commit(st, kind, attrs, obj) ==
    (IF obj = None THEN st
     ELSE {d \in st : ~(d.kind = kind /\ d.id = obj[1].id)})
        \cup {Saved(st, kind, attrs, obj)}

(***************************************************************************)
(* validate_attributes_values(attrs, source) of the values validator of    *)
(* one kind.  attributes_values as the JSON field delivers it is           *)
(*   a dict: t = "dict", items = its <<key, value>> pairs in order,        *)
(*   a list: t = "list", items = <<item, "">> for each of its strings,     *)
(*   a str:  t = "str",  items = <<character, "">> for each character,     *)
(*   a number: t = "num", n = the number.                                  *)
(***************************************************************************)
Dict(items) == [t |-> "dict", items |-> items, n |-> 0]

List(strings) ==
    [t |-> "list", items |-> [i \in 1..Len(strings) |-> <<strings[i], <<>>>>], n |-> 0]

Text(chars) ==
    [t |-> "str", items |-> [i \in 1..Len(chars) |-> <<<<chars[i]>>, <<>>>>], n |-> 0]

Num(n) == [t |-> "num", items |-> <<>>, n |-> n]

\* bool(value) is False
Falsy(p) == IF p.t = "num" THEN p.n = 0 ELSE p.items = <<>>

\* int(key) succeeds on the strings of digits
IsNumeric(key) == Len(key) > 0 /\ \A i \in 1..Len(key) : IsDigit(key[i])

\* [field.id for field in UserStoryCustomAttribute.objects.all()
\*  if field.type == "est"]
EstimateFieldIds(st, kind) ==
    {d.id : d \in {f \in Objects(st, "userstory") : f.type = "est"}}

\* what "for key in attributes_dict" yields at step i
KeyAt(p, i) == p.items[i][1]

\* the loop over the keys from step i on: int(key) raises ValueError on a
\* key that is no number, attributes_dict[key] raises TypeError on a list or
\* a str, and a dict gets the value rewritten in place
RECURSIVE RewriteLoop(_, _, _)
RewriteLoop(p, i, ids) ==
    IF i > Len(p.items) THEN [p |-> p, err |-> "none"]
    ELSE IF ~IsNumeric(KeyAt(p, i)) THEN [p |-> p, err |-> "ValueError"]
    ELSE IF ParseInt(KeyAt(p, i)) \notin ids THEN RewriteLoop(p, i + 1, ids)
    ELSE IF p.t # "dict" THEN [p |-> p, err |-> "TypeError"]
    ELSE RewriteLoop(
            [p EXCEPT !.items[i] = <<@[1], validate_estimation(@[2])>>],
            i + 1, ids)

\* the whole loop; a number is not iterable
Rewrite(p, ids) ==
    IF p.t = "num" THEN [p |-> p, err |-> "TypeError"] ELSE RewriteLoop(p, 1, ids)

\* data_values: attrs.get(...), or the stored mapping when that is falsy and
\* there is an object
DataValues(p, obj) ==
    IF obj # None /\ Falsy(p) THEN obj[1].attributes_values ELSE p

\* project_id: of the submitted container, else of the object's container,
\* else None
ProjectId(container, obj) ==
    IF container # None THEN container
    ELSE IF obj # None THEN Some(obj[1].container_project)
    ELSE None

\* values_ids = list(data_values.keys())
ValuesIds(data) == {data.items[i][1] : i \in 1..Len(data.items)}

\* qs.count() of filter(project=project_id, id__in=values_ids)
CountIn(st, kind, project, ids) ==
    Cardinality({d \in Objects(st, kind) :
                    /\ Some(d.project) = project
                    /\ \E k \in ids : IsNumeric(k) /\ ParseInt(k) = d.id})

\* the steps of one call in order, its outcome, and attributes_values as the
\* call leaves it
validate_attributes_values(st, kind, attrs, obj) ==
    LET ids == EstimateFieldIds(st, kind)
        loop == Rewrite(attrs.values, ids)
        data == DataValues(loop.p, obj)
        project == ProjectId(attrs.container, obj)
        keys == ValuesIds(data)
    IN  IF loop.err # "none"
        THEN [result |-> loop.err, out |-> loop.p,
              steps |-> <<"read_estimate_fields", "rewrite">>]
        ELSE IF data.t # "dict"
        THEN [result |-> "InvalidPayloadShape", out |-> loop.p,
              steps |-> <<"read_estimate_fields", "rewrite", "shape_check">>]
        ELSE IF CountIn(st, kind, project, keys) # Cardinality(keys)
        THEN [result |-> "UnknownAttributeReference", out |-> loop.p,
              steps |-> <<"read_estimate_fields", "rewrite", "shape_check",
                          "count_query">>]
        ELSE [result |-> "ok", out |-> loop.p,
              steps |-> <<"read_estimate_fields", "rewrite", "shape_check",
                          "count_query">>]

(***************************************************************************)
(* States of the parts a specification leaves alone.                       *)
(***************************************************************************)
EmptyStore == {}

NoCheck == [op |-> "none"]

NoReqs == <<>>

NoEst == EstInput(<<>>, <<>>)

NoCall == [op |-> "none"]

(***************************************************************************)
(* Spec: definition mutations, each validated and saved in one step.       *)
(***************************************************************************)
Init ==
    /\ store = EmptyStore
    /\ chk = NoCheck
    /\ reqs = NoReqs
    /\ est = NoEst
    /\ call = NoCall

\* one validated mutation: saved only when the check returns attrs
Mutate(op, kind, attrs, obj) ==
    /\ chk = NoCheck
    /\ chk' = Checked(op, store, kind, attrs, obj)
    /\ store' = IF DuplicateName(store, kind, attrs, obj) THEN store
                ELSE Commit(store, kind, attrs, obj)
    /\ UNCHANGED <<reqs, est, call>>

\* POST: id is read-only, name and project are submitted
Create ==
    \E kind \in Kinds, name \in Names, project \in Projects :
        /\ Cardinality(store) < MaxDefs
        /\ Mutate("create", kind, Attrs(None, Some(name), Some(project)), None)

\* PATCH of the name alone
Rename ==
    \E d \in store, name \in Names :
        Mutate("rename", d.kind, Attrs(None, Some(name), None), Some(d))

\* PATCH of the project alone
Move ==
    \E d \in store, project \in Projects :
        Mutate("move", d.kind, Attrs(None, None, Some(project)), Some(d))

\* the validator called on attrs that carry an id, nothing saved
ValidateOnly ==
    \E kind \in Kinds, id \in {0, 1}, name \in Opt(Names), project \in Opt(Projects),
       obj \in {None} \cup {Some(d) : d \in store} :
        /\ chk = NoCheck
        /\ obj # None => obj[1].kind = kind
        /\ chk' = Checked("validate", store, kind, Attrs(Some(id), name, project), obj)
        /\ UNCHANGED <<store, reqs, est, call>>

\* the request ends and its validator is dropped
Respond ==
    /\ chk # NoCheck
    /\ chk' = NoCheck
    /\ UNCHANGED <<store, reqs, est, call>>

Next == Create \/ Rename \/ Move \/ ValidateOnly \/ Respond

Spec == Init /\ [][Next]_vars

(***************************************************************************)
(* Claims about the uniqueness check.                                      *)
(***************************************************************************)
Collides(st, kind, id, name, project) ==
    \E d \in st :
        /\ d.kind = kind
        /\ Some(d.project) = project
        /\ Some(d.name) = name
        /\ Some(d.id) # id

\* C1: the check raises exactly when a definition of the same kind has the
\* resolved project and name and another id than the resolved id, and
\* otherwise returns attrs unchanged; a second create of a kind/project/name
\* fails, the same name in another project succeeds, and a rename to the
\* definition's own name succeeds.
C1_DuplicateExactly ==
    chk.op # "none" =>
        /\ chk.raised <=>
              Collides(chk.before, chk.kind, chk.resolved.id, chk.resolved.name,
                       chk.resolved.project)
        /\ ~chk.raised => chk.returned = Some(chk.attrs)
        /\ chk.op = "create" =>
              (chk.raised <=>
                  \E d \in chk.before :
                      /\ d.kind = chk.kind
                      /\ d.project = chk.attrs.project[1]
                      /\ d.name = chk.attrs.name[1])
        /\ (/\ chk.op = "rename"
            /\ chk.attrs.name = Some(chk.obj[1].name)
            /\ ~Collides(chk.before, chk.kind, Some(chk.obj[1].id),
                         Some(chk.obj[1].name), Some(chk.obj[1].project)))
              => ~chk.raised

C1_Witness ==
    /\ chk.op = "create"
    /\ chk.raised
    /\ chk.returned = None
    /\ store = chk.before

\* C2: from a store with no two definitions of a kind sharing (project,
\* name), any sequence of validated creates, renames and moves leaves the
\* store with no two such definitions.
C2_StoreUnique ==
    \A d1, d2 \in store :
        (d1.kind = d2.kind /\ d1.project = d2.project /\ d1.name = d2.name)
            => d1 = d2

\* C9: on an update each of id, name and project is the proposed value
\* whenever the field is present in attrs, whatever the value, and the
\* object's value only when it is absent; on a create the proposed values
\* are used as given.
C9_ResolvedWhenPresent ==
    chk.op # "none" =>
        IF chk.obj # None
        THEN /\ chk.resolved.id =
                   IF chk.attrs.id # None THEN chk.attrs.id ELSE Some(chk.obj[1].id)
             /\ chk.resolved.name =
                   IF chk.attrs.name # None THEN chk.attrs.name
                   ELSE Some(chk.obj[1].name)
             /\ chk.resolved.project =
                   IF chk.attrs.project # None THEN chk.attrs.project
                   ELSE Some(chk.obj[1].project)
        ELSE chk.resolved = chk.attrs

(***************************************************************************)
(* SpecRace: two requests whose check and save are separate steps.  The    *)
(* check reads the table as it is at that moment and takes no lock.        *)
(***************************************************************************)
Requests == {"r1", "r2"}

IdleReq == [pc |-> "idle"]

\* the names a racing request may submit: one more that no seed row holds
RaceNames == Names \cup {"c"}

\* two definitions of one kind, already saved under different names
SeedStores ==
    {EmptyStore} \cup
    {{Row(kind, 1, p, "a", "text"), Row(kind, 2, q, "b", "text")} :
        kind \in Kinds, p \in Projects, q \in Projects}

InitRace ==
    /\ store \in SeedStores
    /\ reqs = [r \in Requests |-> IdleReq]
    /\ chk = NoCheck
    /\ est = NoEst
    /\ call = NoCall

Begun(op, kind, attrs, obj) ==
    [pc |-> "begun", op |-> op, kind |-> kind, attrs |-> attrs, obj |-> obj,
     raised |-> FALSE, saved_id |-> 0]

Begin(r, op, kind, attrs, obj) ==
    /\ reqs[r].pc = "idle"
    /\ reqs' = [reqs EXCEPT ![r] = Begun(op, kind, attrs, obj)]
    /\ UNCHANGED <<store, chk, est, call>>

BeginCreate ==
    \E r \in Requests, kind \in Kinds, name \in RaceNames, project \in Projects :
        /\ Cardinality(store) < MaxDefs
        /\ Begin(r, "create", kind, Attrs(None, Some(name), Some(project)), None)

\* self.object is the row as loaded when the request starts
BeginRename ==
    \E r \in Requests, d \in store, name \in RaceNames :
        Begin(r, "rename", d.kind, Attrs(None, Some(name), None), Some(d))

BeginMove ==
    \E r \in Requests, d \in store, project \in Projects :
        Begin(r, "move", d.kind, Attrs(None, None, Some(project)), Some(d))

\* validate_name / validate_project against the rows of this moment
CheckReq ==
    \E r \in Requests :
        /\ reqs[r].pc = "begun"
        /\ reqs' = [reqs EXCEPT
                      ![r].pc = "checked",
                      ![r].raised = DuplicateName(store, reqs[r].kind, reqs[r].attrs,
                                                  reqs[r].obj)]
        /\ UNCHANGED <<store, chk, est, call>>

\* the check returned attrs: the row is saved
SaveReq ==
    \E r \in Requests :
        /\ reqs[r].pc = "checked"
        /\ ~reqs[r].raised
        /\ store' = Commit(store, reqs[r].kind, reqs[r].attrs, reqs[r].obj)
        /\ reqs' = [reqs EXCEPT
                      ![r].pc = "saved",
                      ![r].saved_id = Saved(store, reqs[r].kind, reqs[r].attrs,
                                            reqs[r].obj).id]
        /\ UNCHANGED <<chk, est, call>>

\* the check raised: nothing is saved
RejectReq ==
    \E r \in Requests :
        /\ reqs[r].pc = "checked"
        /\ reqs[r].raised
        /\ reqs' = [reqs EXCEPT ![r].pc = "rejected"]
        /\ UNCHANGED <<store, chk, est, call>>

NextRace ==
    BeginCreate \/ BeginRename \/ BeginMove \/ CheckReq \/ SaveReq \/ RejectReq

SpecRace == InitRace /\ [][NextRace]_vars

(***************************************************************************)
(* Claim about the race.                                                   *)
(***************************************************************************)
\* the (kind, project, name) a request gives its definition
Target(q) ==
    LET row == Saved(store, q.kind, q.attrs, q.obj)
    IN  <<row.kind, row.project, row.name>>

Held(target) ==
    \E d \in store : <<d.kind, d.project, d.name>> = target

\* two requests on two different definitions that give them the same
\* (kind, project, name)
Rivals(r1, r2) ==
    /\ r1 # r2
    /\ reqs[r1].pc # "idle"
    /\ reqs[r2].pc # "idle"
    /\ Target(reqs[r1]) = Target(reqs[r2])
    /\ (reqs[r1].obj = None
        \/ reqs[r2].obj = None
        \/ reqs[r1].obj[1].id # reqs[r2].obj[1].id)

\* C10: when two requests give two different definitions of a kind the same
\* (project, name) that no saved definition holds, and both run the check
\* before either saves, both checks pass; once both have saved, two
\* definitions share (project, name).
C10_BothChecksPass ==
    \A r1, r2 \in Requests :
        Rivals(r1, r2) =>
            /\ (/\ reqs[r1].pc = "checked"
                /\ reqs[r2].pc = "checked"
                /\ ~Held(Target(reqs[r1])))
                  => (~reqs[r1].raised /\ ~reqs[r2].raised)
            /\ (/\ reqs[r1].pc = "saved"
                /\ reqs[r2].pc = "saved"
                /\ reqs[r1].saved_id # reqs[r2].saved_id)
                  => ~C2_StoreUnique

C10_Witness ==
    /\ Rivals("r1", "r2")
    /\ reqs["r1"].pc = "saved"
    /\ reqs["r2"].pc = "saved"
    /\ reqs["r1"].op = "rename"
    /\ reqs["r2"].op = "rename"
    /\ \E d1, d2 \in store :
          /\ d1.id # d2.id
          /\ <<d1.kind, d1.project, d1.name>> = <<d2.kind, d2.project, d2.name>>
          /\ d1.name = "c"

(***************************************************************************)
(* SpecValues: validate_attributes_values called once on tables that hold  *)
(* at most MaxDefs definitions.                                            *)
(***************************************************************************)
DefIds == 1..2

\* the name the definition with this id was given
NameOf(id) == IF id = 1 THEN "a" ELSE "b"

DefRows ==
    {Row(kind, id, project, NameOf(id), type) :
        kind \in Kinds, id \in DefIds, project \in Projects, type \in Types}

\* the tables with at most n rows
RECURSIVE StoresUpTo(_)
StoresUpTo(n) ==
    IF n = 0 THEN {EmptyStore}
    ELSE LET smaller == StoresUpTo(n - 1)
         IN  smaller \cup
             {st \cup {d} : st \in smaller,
                            d \in DefRows}

ValueStores ==
    {st \in StoresUpTo(MaxDefs) :
        \A d1, d2 \in st : (d1.kind = d2.kind /\ d1.id = d2.id) => d1 = d2}

Keys == {<<"1">>, <<"2">>, <<"x">>}

Values == {<<"1", "3", "h">>, <<"1", "d", "5", "h">>}

DictItems ==
    {items \in UNION {[1..n -> Keys \X Values] : n \in 0..MaxKeys} :
        \A i, j \in 1..Len(items) : items[i][1] = items[j][1] => i = j}

Payloads ==
    {Dict(items) : items \in DictItems}
        \cup {List(<<>>), List(<<<<"1">>>>)}
        \cup {Text(<<>>), Text(<<"1">>), Text(<<"x">>)}
        \cup {Num(5)}

\* self.object: the values row of a container, with the mapping saved on it
ValuesObjects ==
    {[container_project |-> 1,
      attributes_values |-> Dict(<<<<<<"1">>, <<"1", "d", "5", "h">>>>>>)]}

InitValues ==
    /\ store \in ValueStores
    /\ call = NoCall
    /\ chk = NoCheck
    /\ reqs = NoReqs
    /\ est = NoEst

ValidateValues ==
    \E kind \in Kinds, p \in Payloads, container \in Opt(Projects),
       obj \in Opt(ValuesObjects) :
        /\ call = NoCall
        /\ call' = [op |-> "values", kind |-> kind, values |-> p,
                    container |-> container, obj |-> obj,
                    done |-> validate_attributes_values(
                                store, kind, [values |-> p, container |-> container],
                                obj)]
        /\ UNCHANGED <<store, chk, reqs, est>>

NextValues == ValidateValues

SpecValues == InitValues /\ [][NextValues]_vars

(***************************************************************************)
(* Claims about validate_attributes_values.                                *)
(***************************************************************************)
\* the key names a definition of the kind in the effective project
Resolves(key) ==
    /\ IsNumeric(key)
    /\ \E d \in store :
          /\ d.kind = call.kind
          /\ d.id = ParseInt(key)
          /\ Some(d.project) = ProjectId(call.container, call.obj)

\* the ids of the estimation-typed definitions of the kind's own table
KindEstimateFieldIds(st, kind) ==
    {d.id : d \in {f \in Objects(st, kind) : f.type = "est"}}

\* the mapping the referential check is about
Effective == DataValues(call.values, call.obj)

\* C3: a values mapping whose keys all name definitions of the kind in the
\* effective container project is accepted, and one with a key that does
\* not (another project's definition, a definition that does not exist, a
\* key that is no number) fails with UnknownAttributeReference.
C3_KeysMustResolve ==
    (call.op = "values" /\ Effective.t = "dict") =>
        IF \A key \in ValuesIds(Effective) : Resolves(key)
        THEN call.done.result = "ok"
        ELSE call.done.result = "UnknownAttributeReference"

\* C6: for each kind, the value under a key is replaced by its
\* validate_estimation exactly when the definition of that kind with id =
\* key has the estimation type, every other value is left as it was, and
\* the rewrite comes before the referential check.
C6_RewriteByOwnKind ==
    (/\ call.op = "values"
     /\ call.values.t = "dict"
     /\ call.done.result \in {"ok", "UnknownAttributeReference"}) =>
        /\ \A i \in 1..Len(call.values.items) :
              call.done.out.items[i] =
                  IF ParseInt(call.values.items[i][1])
                        \in KindEstimateFieldIds(store, call.kind)
                  THEN <<call.values.items[i][1],
                         validate_estimation(call.values.items[i][2])>>
                  ELSE call.values.items[i]
        /\ \E i, j \in 1..Len(call.done.steps) :
              /\ i < j
              /\ call.done.steps[i] = "rewrite"
              /\ call.done.steps[j] = "count_query"

\* C7: attributes_values that is no mapping ends the call with
\* InvalidPayloadShape, before any read of the definition tables and before
\* the estimation rewrite.
C7_ShapeCheckedFirst ==
    (call.op = "values" /\ call.values.t # "dict") =>
        /\ call.done.result = "InvalidPayloadShape"
        /\ call.done.steps = <<"shape_check">>

(***************************************************************************)
(* SpecEst: validate_estimation applied to a string, and applied again to  *)
(* its own result.                                                         *)
(***************************************************************************)
InitEst ==
    /\ est \in EstInputs
    /\ store = EmptyStore
    /\ chk = NoCheck
    /\ reqs = NoReqs
    /\ call = NoCall

\* validate_estimation(value): a str comes back for every str (no raise)
Normalize ==
    /\ est.stage = "input"
    /\ est' = [est EXCEPT !.out = validate_estimation(est.raw),
                          !.outcome = "returned",
                          !.stage = "normalized"]
    /\ UNCHANGED <<store, chk, reqs, call>>

\* validate_estimation(validate_estimation(value))
Renormalize ==
    /\ est.stage = "normalized"
    /\ est' = [est EXCEPT !.out2 = validate_estimation(est.out),
                          !.stage = "renormalized"]
    /\ UNCHANGED <<store, chk, reqs, call>>

NextEst == Normalize \/ Renormalize

SpecEst == InitEst /\ [][NextEst]_vars

(***************************************************************************)
(* Claims about validate_estimation.                                       *)
(***************************************************************************)
PartVal(p) == IF p = None THEN 0 ELSE p[1]

TotalHours(parts) == 40 * PartVal(parts[1]) + 8 * PartVal(parts[2]) + PartVal(parts[3])

Canonical(W, D, H) ==
    (IF W > 0 THEN ToStr(W) \o <<"w">> ELSE <<>>)
        \o (IF D > 0 THEN ToStr(D) \o <<"d">> ELSE <<>>)
        \o (IF H > 0 THEN ToStr(H) \o <<"h">> ELSE <<>>)

Example(raw, out) == est.raw = raw => est.out = out

\* C4: a grammar-valid input <w>w<d>d<h>h is returned as the rendering of the
\* W, D, H with H < 8, D < 5 and 40W + 8D + H = 40w + 8d + h, each unit
\* written only when its number is > 0, in week-day-hour order; all zero
\* gives the empty string ("0h" -> "", "9h" -> "1d1h", "5d" -> "1w",
\* "40h" -> "1w").
C4_EstimationCarries ==
    (est.stage # "input" /\ est.parts # <<>>) =>
        /\ \E W \in 0..(TotalHours(est.parts) \div 40), D \in 0..4, H \in 0..7 :
              /\ 40 * W + 8 * D + H = TotalHours(est.parts)
              /\ est.out = Canonical(W, D, H)
        /\ TotalHours(est.parts) = 0 => est.out = <<>>
        /\ Example(<<"0", "h">>, <<>>)
        /\ Example(<<"9", "h">>, <<"1", "d", "1", "h">>)
        /\ Example(<<"5", "d">>, <<"1", "w">>)
        /\ Example(<<"4", "0", "h">>, <<"1", "w">>)

C4_Witness ==
    /\ est.stage = "normalized"
    /\ est.parts = <<None, Some(4), Some(9)>>
    /\ est.out = <<"1", "w">> \o <<"1", "h">>

\* C5: validate_estimation fails with MalformedEstimation, and returns no
\* string, for every input outside the duration grammar.
C5_MalformedRejected ==
    (est.stage # "input" /\ ~InGrammar(est.raw)) =>
        est.outcome = "MalformedEstimation"

\* C8: validate_estimation is idempotent on grammar-valid strings, the empty
\* first result included.
C8_Idempotent ==
    (est.stage = "renormalized" /\ InGrammar(est.raw)) => est.out2 = est.out

C8_Witness ==
    /\ est.stage = "renormalized"
    /\ est.raw = <<"0", "h">>
    /\ est.out = <<>>
    /\ est.out2 = <<>>

====
